---- MODULE Spec2Model ----
(***************************************************************************)
(* Entropy-based image border detection (enimda).                          *)
(*                                                                         *)
(* Three state machines share this module:                                 *)
(*   SpecSample - the stratified sampler, utils.rs paginate                *)
(*   SpecScan   - one scan of one image, utils.rs convert/chop/entropy/scan*)
(*   SpecGif    - the animated-image paths, lib.rs enimda and              *)
(*                utils.rs decompose                                       *)
(*                                                                         *)
(* f32 quantities that are ratios of small integers (ppt, depth, thres,    *)
(* mul) are kept as exact fractions [num, den]; the inputs are dyadic, so  *)
(* the f32 arithmetic of the code is exact on them.  Entropies are kept    *)
(* in units of 1/10000 bit.                                                *)
(***************************************************************************)
EXTENDS Integers, Sequences, FiniteSets, TLC

\* ------------------------------------------------------------------ bounds
MaxTotal == 5
MaxLim == 2
MaxDim == 4
MaxMargin == 2
MaxFrames == 3

VARIABLES
  \* paginate
  total, ppt, lim, count, indexes, result, ppc,
  \* scan
  im, size, depth, thres, deep, mul, conv, strips, side, height, border,
  iters, regions, borders, pc,
  \* enimda / decompose on an animation
  entry, anim, frameset, index, screen, ims, variants, report, gpc

sampVars == <<total, ppt, lim, count, indexes, result, ppc>>
scanVars == <<im, size, depth, thres, deep, mul, conv, strips, side, height,
              border, iters, regions, borders, pc>>
gifVars == <<entry, anim, frameset, index, screen, ims, variants, report, gpc>>
vars == <<sampVars, scanVars, gifVars>>

\* ---------------------------------------------------------------- helpers
Frac(n, d) == [num |-> n, den |-> d]

\* a < b on fractions with positive denominators
Less(a, b) == a.num * b.den < b.num * a.den

Min(a, b) == IF a < b THEN a ELSE b

Range(s) == {s[i] : i \in 1..Len(s)}

\* f32::round of a / b for a >= 0, b > 0: half rounds away from zero
Round(a, b) == (2 * a + b) \div (2 * b)

\* `x as u32` of a / b for a >= 0, b > 0: the fraction is dropped
Trunc(a, b) == a \div b

\* ------------------------------------------------------------- paginate
\* (1.0 / ppt).round() as u32.  1.0 / 0.0 is +inf, and the cast of a float
\* that does not fit is not defined by the language the crate was written
\* in: any u32 may come out (0 on x86-64, u32::MAX where casts saturate).
\* Every value above `n` divides `n` like u32::MAX does.
Counts(p, n) ==
  IF p.num = 0 THEN 0..(n + 1) ELSE {Round(p.den, p.num)}

\* rng.gen_range(low, high): low <= x < high
GenRange(low, high) == low..(high - 1)

PageRangeOverlapping(page, cnt) == GenRange(page * cnt, (page + 1) * cnt + 1)

\* the range page `page` draws from
PageRange(page, cnt) == GenRange(page * cnt, (page + 1) * cnt)

RECURSIVE DrawPages(_, _)
\* every outcome of the loop `for page in 0..n`
DrawPages(n, cnt) ==
  IF n = 0 THEN {<<>>}
  ELSE {Append(s, x) : s \in DrawPages(n - 1, cnt), x \in PageRange(n - 1, cnt)}

DrawsNoRemainder(n, cnt) == DrawPages(n \div cnt, cnt)

\* every outcome of lines 16-25 for cnt > 0: one index per page of `cnt`
\* indices, and one from the trailing run when total % count != 0
Draws(n, cnt) ==
  LET int == n \div cnt
      rem == n % cnt
  IN IF rem # 0
     THEN {Append(s, x) : s \in DrawPages(int, cnt), x \in GenRange(int * cnt, n)}
     ELSE DrawPages(int, cnt)

\* every outcome of rng.shuffle
Shuffles(s) ==
  {[i \in 1..Len(s) |-> s[p[i]]] : p \in Permutations(1..Len(s))}

\* indexes.truncate(min(len, lim))
Truncate(s, l) == SubSeq(s, 1, Min(Len(s), l))

\* every set paginate(n, p, l) can return; empty when it can only panic
PaginateSets(n, p, l) ==
  UNION {{Range(Truncate(sh, l)) : sh \in UNION {Shuffles(d) : d \in Draws(n, c)}}
         : c \in Counts(p, n) \ {0}}

\* whether paginate(n, p, l) can panic (division by zero on count = 0)
PaginatePanics(n, p, l) == 0 \in Counts(p, n)

Densities == {Frac(0, 1), Frac(1, 4), Frac(1, 2), Frac(3, 4), Frac(1, 1)}

NoImage == [w |-> 0, h |-> 0, px |-> <<>>]

ScanIdle ==
  /\ im = NoImage /\ size = 0 /\ depth = Frac(0, 1) /\ thres = Frac(0, 1)
  /\ deep = FALSE /\ mul = Frac(1, 1) /\ conv = NoImage /\ strips = NoImage
  /\ side = 0 /\ height = 0 /\ border = 0 /\ iters = 0 /\ regions = {}
  /\ borders = <<>> /\ pc = "idle"

GifIdle ==
  /\ entry = "none" /\ anim = <<>> /\ frameset = {} /\ index = 0
  /\ screen = NoImage /\ ims = <<>> /\ variants = <<>> /\ report = <<>>
  /\ gpc = "idle"

SampleIdle ==
  /\ total = 0 /\ count = 0 /\ indexes = <<>> /\ result = {} /\ ppc = "idle"

InitSample ==
  /\ total \in 0..MaxTotal
  /\ ppt \in Densities
  /\ lim \in 0..MaxLim
  /\ count = 0
  /\ indexes = <<>>
  /\ result = {}
  /\ ppc = "start"
  /\ ScanIdle
  /\ GifIdle

\* lines 15-25: count, int, rem and the draws
PaginateDraw ==
  /\ ppc = "start"
  /\ \E c \in Counts(ppt, total) :
       /\ count' = c
       /\ IF c = 0
          THEN /\ ppc' = "panic"
               /\ indexes' = indexes
          ELSE /\ ppc' = "drawn"
               /\ indexes' \in Draws(total, c)
  /\ UNCHANGED <<total, ppt, lim, result, scanVars, gifVars>>

\* lines 26-30: shuffle, truncate, collect into the set
PaginateReturn ==
  /\ ppc = "drawn"
  /\ \E sh \in Shuffles(indexes) :
       /\ indexes' = Truncate(sh, lim)
       /\ result' = Range(Truncate(sh, lim))
  /\ ppc' = "done"
  /\ UNCHANGED <<total, ppt, lim, count, scanVars, gifVars>>

NextSample == PaginateDraw \/ PaginateReturn

SpecSample == InitSample /\ [][NextSample]_vars


\* --------------------------------------------------------------- images
\* An image is [w, h, px] with px[<<x, y>>] the luma of column x, row y.
Pixels(w, h) == (0..(w - 1)) \X (0..(h - 1))

\* t blank rows on top, l blank columns on the left, then (with bn = 1) one
\* row that is blank but for its last pixel, then a two-tone pattern
Img(w, h, t, l, bn) ==
  [w |-> w, h |-> h,
   px |-> [p \in Pixels(w, h) |->
             IF p[2] < t \/ p[1] < l THEN 0
             ELSE IF p[2] < t + bn THEN (IF p[1] = w - 1 THEN 1 ELSE 0)
             ELSE 1 + ((p[1] + p[2]) % 2)]]

Uniform(w, h, v) == [w |-> w, h |-> h, px |-> [p \in Pixels(w, h) |-> v]]

IsUniform(i) == \A p, q \in DOMAIN i.px : i.px[p] = i.px[q]

ImagesOf(w, h) ==
  {Img(w, h, t, l, bn) : t \in 0..MaxMargin, l \in 0..1, bn \in 0..1}
    \cup {Uniform(w, h, v) : v \in {0, 2}}

Images == UNION {ImagesOf(w, h) : w \in 1..MaxDim, h \in 1..MaxDim}

\* imageops::rotate270: out(y, width - 1 - x) = in(x, y)
Rotate270(i) ==
  [w |-> i.h, h |-> i.w,
   px |-> [p \in Pixels(i.h, i.w) |-> i.px[<<i.w - 1 - p[2], p[1]>>]]]

\* ---------------------------------------------------------------- convert
\* the scale factor, w / size or h / size as a fraction, 1.0 without resize
Mul(w, h, sz) ==
  IF w > sz \/ h > sz
  THEN (IF w > h THEN Frac(w, sz) ELSE Frac(h, sz))
  ELSE Frac(1, 1)

\* the dimensions DynamicImage::resize(size, size, _) gives: the aspect
\* ratio is kept, the longer side becomes `size`, the other is cut down
ResizedDims(w, h, sz) ==
  IF h > w THEN <<Trunc(w * sz, h), sz>> ELSE <<sz, Trunc(h * sz, w)>>

\* every (mul, conv) convert can return: the Lanczos3 resampling is left
\* open, any image of the resized dimensions may come out of it
ConvertOutcomes(i, sz) ==
  LET m == Mul(i.w, i.h, sz)
  IN IF m # Frac(1, 1)
     THEN {<<m, c>> : c \in ImagesOf(ResizedDims(i.w, i.h, sz)[1],
                                      ResizedDims(i.w, i.h, sz)[2])}
     ELSE {<<m, i>>}

\* ------------------------------------------------------------------- chop
ValidFraction(p) == ~(p.num < 0 \/ p.num > p.den)

ChopBypassBoth(p, l) == p = Frac(1, 1) /\ l = 0

\* line 102: ppt == 1.0 || lim == 0
ChopBypass(p, l) == p = Frac(1, 1) \/ l = 0

\* every order a HashSet of column indices can be iterated in
Orders(S) ==
  {f \in [1..Cardinality(S) -> S] : \A a, b \in 1..Cardinality(S) : a # b => f[a] # f[b]}

\* lines 108-111: column i of the result is column rows[i] of conv
Columns(c, rows) ==
  [w |-> Len(rows), h |-> c.h,
   px |-> [p \in Pixels(Len(rows), c.h) |-> c.px[<<rows[p[1] + 1], p[2]>>]]]

\* whether chop can panic: the range check, or paginate's division
ChopPanics(c, p, l) ==
  \/ ~ValidFraction(p)
  \/ ~ChopBypass(p, l) /\ PaginatePanics(c.w, p, l)

\* every buffer chop can return
ChopOutcomes(c, p, l) ==
  IF ~ValidFraction(p) THEN {}
  ELSE IF ChopBypass(p, l) THEN {c}
  ELSE {Columns(c, o) : o \in UNION {Orders(S) : S \in PaginateSets(c.w, p, l)}}

\* ---------------------------------------------------------------- entropy
\* -(c/n) * log2(c/n) in units of 1/10000 bit, EntropyTable[n][c]
EntropyTable ==
  <<
    <<0>>,
    <<5000, 0>>,
    <<5283, 3900, 0>>,
    <<5000, 5000, 3113, 0>>,
    <<4644, 5288, 4422, 2575, 0>>,
    <<4308, 5283, 5000, 3900, 2192, 0>>,
    <<4011, 5164, 5239, 4613, 3467, 1906, 0>>,
    <<3750, 5000, 5306, 5000, 4238, 3113, 1686, 0>>,
    <<3522, 4822, 5283, 5200, 4711, 3900, 2820, 1510, 0>>,
    <<3322, 4644, 5211, 5288, 5000, 4422, 3602, 2575, 1368, 0>>,
    <<3145, 4472, 5112, 5307, 5170, 4770, 4150, 3341, 2369, 1250, 0>>,
    <<2987, 4308, 5000, 5283, 5263, 5000, 4536, 3900, 3113, 2192, 1151, 0>>,
    <<2846, 4155, 4882, 5232, 5302, 5148, 4809, 4310, 3673, 2912, 2039, 1066, 0>>,
    <<2720, 4011, 4762, 5164, 5305, 5239, 5000, 4613, 4098, 3467, 2734, 1906, 993, 0>>,
    <<2605, 3876, 4644, 5085, 5283, 5288, 5131, 4837, 4422, 3900, 3281, 2575, 1789, 929, 0>>,
    <<2500, 3750, 4528, 5000, 5244, 5306, 5218, 5000, 4669, 4238, 3716, 3113, 2434, 1686, 873, 0>>,
    <<2404, 3632, 4416, 4912, 5193, 5303, 5271, 5117, 4858, 4503, 4064, 3547, 2960, 2307, 1593, 823, 0>>,
    <<2317, 3522, 4308, 4822, 5133, 5283, 5299, 5200, 5000, 4711, 4342, 3900, 3391, 2820, 2192, 1510, 779, 0>>,
    <<2236, 3419, 4205, 4732, 5068, 5251, 5307, 5254, 5106, 4874, 4565, 4187, 3746, 3246, 2692, 2088, 1436, 739, 0>>,
    <<2161, 3322, 4105, 4644, 5000, 5211, 5301, 5288, 5184, 5000, 4744, 4422, 4040, 3602, 3113, 2575, 1993, 1368, 703, 0>>,
    <<2092, 3231, 4011, 4557, 4929, 5164, 5283, 5304, 5239, 5097, 4887, 4613, 4283, 3900, 3467, 2989, 2468, 1906, 1306, 670, 0>>,
    <<2027, 3145, 3920, 4472, 4858, 5112, 5257, 5307, 5275, 5170, 5000, 4770, 4485, 4150, 3767, 3341, 2874, 2369, 1827, 1250, 641, 0>>,
    <<1967, 3064, 3833, 4389, 4786, 5057, 5223, 5299, 5297, 5224, 5089, 4897, 4652, 4360, 4022, 3642, 3223, 2768, 2277, 1753, 1198, 613, 0>>,
    <<1910, 2987, 3750, 4308, 4715, 5000, 5185, 5283, 5306, 5263, 5159, 5000, 4791, 4536, 4238, 3900, 3524, 3113, 2668, 2192, 1686, 1151, 588, 0>>,
    <<1858, 2915, 3671, 4230, 4644, 4941, 5142, 5260, 5306, 5288, 5211, 5083, 4906, 4684, 4422, 4121, 3783, 3412, 3009, 2575, 2113, 1623, 1107, 565, 0>>,
    <<1808, 2846, 3595, 4155, 4574, 4882, 5097, 5232, 5298, 5302, 5250, 5148, 5000, 4809, 4578, 4310, 4008, 3673, 3307, 2912, 2489, 2039, 1565, 1066, 544, 0>>,
    <<1761, 2781, 3522, 4081, 4505, 4822, 5049, 5200, 5283, 5307, 5278, 5200, 5077, 4913, 4711, 4473, 4202, 3900, 3567, 3207, 2820, 2407, 1971, 1510, 1028, 524, 0>>,
    <<1717, 2720, 3453, 4011, 4438, 4762, 5000, 5164, 5263, 5305, 5295, 5239, 5139, 5000, 4824, 4613, 4371, 4098, 3796, 3467, 3113, 2734, 2331, 1906, 1460, 993, 506, 0>>,
    <<1675, 2661, 3386, 3942, 4373, 4703, 4950, 5125, 5239, 5297, 5305, 5268, 5189, 5072, 4919, 4734, 4517, 4271, 3997, 3697, 3372, 3023, 2652, 2259, 1846, 1412, 960, 489, 0>>,
    <<1636, 2605, 3322, 3876, 4308, 4644, 4899, 5085, 5211, 5283, 5307, 5288, 5228, 5131, 5000, 4837, 4643, 4422, 4173, 3900, 3602, 3281, 2939, 2575, 2192, 1789, 1368, 929, 473, 0>>,
    <<1598, 2551, 3261, 3812, 4246, 4586, 4848, 5043, 5180, 5265, 5304, 5300, 5258, 5179, 5068, 4925, 4753, 4554, 4329, 4079, 3806, 3511, 3195, 2859, 2503, 2128, 1736, 1326, 900, 458, 0>>,
    <<1562, 2500, 3202, 3750, 4184, 4528, 4796, 5000, 5147, 5244, 5296, 5306, 5279, 5218, 5124, 5000, 4848, 4669, 4465, 4238, 3988, 3716, 3424, 3113, 2782, 2434, 2068, 1686, 1287, 873, 444, 0>>,
    <<1529, 2451, 3145, 3690, 4125, 4472, 4745, 4956, 5112, 5220, 5283, 5307, 5294, 5248, 5170, 5064, 4930, 4770, 4586, 4379, 4150, 3900, 3630, 3341, 3034, 2710, 2369, 2011, 1638, 1250, 847, 430, 0>>,
    <<1496, 2404, 3090, 3632, 4067, 4416, 4694, 4912, 5076, 5193, 5267, 5303, 5303, 5271, 5208, 5117, 5000, 4858, 4692, 4503, 4294, 4064, 3815, 3547, 3262, 2960, 2641, 2307, 1957, 1593, 1215, 823, 418, 0>>,
    <<1466, 2360, 3038, 3576, 4011, 4362, 4644, 4867, 5038, 5164, 5248, 5295, 5307, 5288, 5239, 5162, 5060, 4934, 4785, 4613, 4422, 4210, 3980, 3732, 3467, 3186, 2888, 2575, 2248, 1906, 1551, 1182, 800, 406, 0>>,
    <<1436, 2317, 2987, 3522, 3956, 4308, 4594, 4822, 5000, 5133, 5227, 5283, 5306, 5299, 5263, 5200, 5112, 5000, 4866, 4711, 4536, 4342, 4130, 3900, 3653, 3391, 3113, 2820, 2513, 2192, 1858, 1510, 1151, 779, 395, 0>>
  >>

RECURSIVE SumTerms(_, _, _)
SumTerms(hm, vs, len) ==
  IF vs = {} THEN 0
  ELSE LET v == CHOOSE x \in vs : TRUE
       IN EntropyTable[len][hm[v]] + SumTerms(hm, vs \ {v}, len)

\* the sub-image rows [y, y + hgt) over the full width lie inside the strip
InBounds(strip, y, hgt) == y + hgt <= strip.h

\* entropy(strip, 0, y, strip.w, hgt) for a region inside the strip
Entropy(strip, y, hgt) ==
  LET reg == (0..(strip.w - 1)) \X (y..(y + hgt - 1))
      seen == {strip.px[p] : p \in reg}
      hm == [v \in seen |-> Cardinality({p \in reg : strip.px[p] = v})]
  IN SumTerms(hm, seen, strip.w * hgt)

\* ------------------------------------------------------------------- scan
\* line 151: (depth * h as f32).round() as u32
SearchHeight(d, h) == Round(d.num * h, d.den)

RECURSIVE LocateStartFrom(_, _, _, _)
\* lines 155-161 from `center` on.  Reading a row outside the buffer
\* panics; `regions` are the <<y, height>> passed to entropy.
LocateStartFrom(strip, b, hh, center) ==
  IF center >= hh THEN [panic |-> FALSE, start |-> b + 1, regions |-> {}]
  ELSE IF ~InBounds(strip, b, center)
  THEN [panic |-> TRUE, start |-> 0, regions |-> {<<b, center>>}]
  ELSE IF Entropy(strip, b, center) > 0
  THEN [panic |-> FALSE, start |-> center, regions |-> {<<b, center>>}]
  ELSE LET r == LocateStartFrom(strip, b, hh, center + 1)
       IN [r EXCEPT !.regions = @ \cup {<<b, center>>}]

CentersThroughHeight(start, hh) == hh

\* line 165: the last center of start..height
LastCenter(start, hh) == hh - 1

RECURSIVE CandidateFrom(_, _, _, _, _, _, _)
\* lines 165-176 from `center` down to `start`
CandidateFrom(strip, b, start, center, sub, delta, th) ==
  IF center < start THEN [panic |-> FALSE, sub |-> sub, regions |-> {}]
  ELSE IF ~InBounds(strip, b, center - b)
  THEN [panic |-> TRUE, sub |-> sub, regions |-> {<<b, center - b>>}]
  ELSE IF ~InBounds(strip, center, center - b)
  THEN [panic |-> TRUE, sub |-> sub,
        regions |-> {<<b, center - b>>, <<center, center - b>>}]
  ELSE LET upper == Entropy(strip, b, center - b)
           lower == Entropy(strip, center, center - b)
           diff == IF lower # 0 THEN Frac(upper, lower) ELSE delta
           take == Less(diff, delta) /\ Less(diff, th)
           r == CandidateFrom(strip, b, start, center - 1,
                              IF take THEN center ELSE sub,
                              IF take THEN diff ELSE delta, th)
       IN [r EXCEPT !.regions = @ \cup {<<b, center - b>>, <<center, center - b>>}]

\* lines 155-176: one pass of the loop body up to the candidate `sub`
LoopBody(strip, b, hh, th) ==
  LET s == LocateStartFrom(strip, b, hh, b + 1)
  IN IF s.panic THEN [panic |-> TRUE, sub |-> 0, regions |-> s.regions]
     ELSE LET c == CandidateFrom(strip, b, s.start, LastCenter(s.start, hh), 0, th, th)
          IN [panic |-> c.panic, sub |-> c.sub, regions |-> s.regions \cup c.regions]

ScaleRounded(b, m) == Round(b * m.num, m.den)

\* line 189: (border as f32 * mul) as u32
Scale(b, m) == Trunc(b * m.num, m.den)

Depths == {Frac(0, 1), Frac(1, 4), Frac(1, 2), Frac(3, 4), Frac(1, 1), Frac(3, 2)}

Thresholds == {Frac(1, 2), Frac(1, 1)}

Sizes == {2, 4}

Samplings == {<<Frac(1, 1), 2>>, <<Frac(1, 2), 0>>, <<Frac(1, 2), 2>>, <<Frac(3, 2), 2>>}

InitScan ==
  /\ im \in Images
  /\ size \in Sizes
  /\ ResizedDims(im.w, im.h, size)[1] >= 1
  /\ ResizedDims(im.w, im.h, size)[2] >= 1
  /\ depth \in Depths
  /\ thres \in Thresholds
  /\ deep \in BOOLEAN
  /\ \E s \in Samplings : ppt = s[1] /\ lim = s[2]
  /\ mul = Frac(1, 1) /\ conv = NoImage /\ strips = NoImage
  /\ side = 0 /\ height = 0 /\ border = 0 /\ iters = 0 /\ regions = {}
  /\ borders = <<>>
  /\ pc = "convert"
  /\ SampleIdle
  /\ GifIdle

\* line 145-146
Convert ==
  /\ pc = "convert"
  /\ \E o \in ConvertOutcomes(im, size) : mul' = o[1] /\ conv' = o[2]
  /\ pc' = "side"
  /\ UNCHANGED <<im, size, depth, thres, deep, strips, side, height, border,
                 iters, regions, borders, ppt, lim, total, count, indexes,
                 result, ppc, gifVars>>

\* lines 149-152: the strip, the search height and border = 0 of one side
SideStart ==
  /\ pc = "side"
  /\ \/ /\ ChopPanics(conv, ppt, lim)
        /\ pc' = "panic"
        /\ UNCHANGED <<strips, height, border, iters, regions>>
     \/ /\ strips' \in ChopOutcomes(conv, ppt, lim)
        /\ height' = SearchHeight(depth, strips'.h)
        /\ border' = 0
        /\ iters' = 0
        /\ regions' = {}
        /\ pc' = "loop"
  /\ UNCHANGED <<im, size, depth, thres, deep, mul, conv, side, borders,
                 ppt, lim, total, count, indexes, result, ppc, gifVars>>

\* lines 154-187: one pass of `loop`
LoopIter ==
  /\ pc = "loop"
  /\ LET r == LoopBody(strips, border, height, thres)
     IN /\ regions' = regions \cup r.regions
        /\ iters' = iters + 1
        /\ IF r.panic
           THEN pc' = "panic" /\ border' = border
           ELSE IF r.sub = 0 \/ border = r.sub
           THEN pc' = "push" /\ border' = border
           ELSE /\ border' = r.sub
                /\ pc' = IF deep THEN "loop" ELSE "push"
  /\ UNCHANGED <<im, size, depth, thres, deep, mul, conv, strips, side, height,
                 borders, ppt, lim, total, count, indexes, result, ppc, gifVars>>

\* lines 189-196: report the side, rotate for the next one or return
Push ==
  /\ pc = "push"
  /\ borders' = Append(borders, Scale(border, mul))
  /\ IF side # 3
     THEN /\ conv' = Rotate270(conv)
          /\ side' = side + 1
          /\ pc' = "side"
     ELSE /\ pc' = "done"
          /\ UNCHANGED <<conv, side>>
  /\ UNCHANGED <<im, size, depth, thres, deep, mul, strips, height, border,
                 iters, regions, ppt, lim, total, count, indexes, result, ppc,
                 gifVars>>

NextScan == Convert \/ SideStart \/ LoopIter \/ Push

SpecScan == InitScan /\ [][NextScan]_vars

\* ------------------------------------------------ animations: the scan
RECURSIVE EdgeLoop(_, _, _, _, _)
\* lines 154-187 run to the end: the raw border, or -1 when a pass panics
EdgeLoop(strip, b, hh, th, dp) ==
  LET r == LoopBody(strip, b, hh, th)
  IN IF r.panic THEN 0 - 1
     ELSE IF r.sub = 0 \/ b = r.sub THEN b
     ELSE IF dp THEN EdgeLoop(strip, r.sub, hh, th, dp)
     ELSE r.sub

RECURSIVE ScanSides(_, _, _, _, _, _)
\* lines 148-196 with sampling off and mul = 1.0, from side `sd` on
ScanSides(c, sd, d, th, dp, acc) ==
  LET b == EdgeLoop(c, 0, SearchHeight(d, c.h), th, dp)
  IN IF b < 0 THEN [panic |-> TRUE, borders |-> acc]
     ELSE IF sd = 3 THEN [panic |-> FALSE, borders |-> Append(acc, Scale(b, Frac(1, 1)))]
     ELSE ScanSides(Rotate270(c), sd + 1, d, th, dp, Append(acc, Scale(b, Frac(1, 1))))

\* scan of a frame that needs no resize, with every column used
ScanFrame(i, d, th, dp) == ScanSides(i, 0, d, th, dp, <<>>)

\* ------------------------------------------------------ animations: frames
\* A frame is an image whose pixels are a luma or -1 (transparent).
GFrame(d, t, tr) ==
  [w |-> d, h |-> d,
   px |-> [p \in Pixels(d, d) |->
             IF p[2] < t THEN (IF tr THEN 0 - 1 ELSE 0)
             ELSE 1 + ((p[1] + p[2]) % 2)]]

GFrames(d) == {GFrame(d, t, tr) : t \in 0..1, tr \in BOOLEAN}

GifDims == {2, 3}

Animations ==
  UNION {UNION {[1..n -> GFrames(d)] : n \in 1..MaxFrames} : d \in GifDims}

\* Screen::new: the canvas before any frame
BlankScreen(d) == Uniform(d, d, 0)

\* screen.blit(&frame): the frame's opaque pixels replace the canvas's
Blit(scr, f) ==
  [scr EXCEPT !.px = [p \in DOMAIN scr.px |->
                        IF f.px[p] < 0 THEN scr.px[p] ELSE f.px[p]]]

\* slice(inf.frames, frames): an index subset of the frames, drawn by the
\* stratified sampler at some density
Slice(n, l) ==
  UNION {PaginateSets(n, p, l) : p \in Densities \ {Frac(0, 1)}}

AggregateStepNoFirst(bs, k, variant) ==
  [sd \in 1..4 |-> IF variant[sd] < bs[sd] THEN variant[sd] ELSE bs[sd]]

\* lines 114-118 for the variant at position k (0-based)
AggregateStep(bs, k, variant) ==
  [sd \in 1..4 |-> IF k = 0 \/ variant[sd] < bs[sd] THEN variant[sd] ELSE bs[sd]]

RECURSIVE AggregateFrom(_, _, _)
AggregateFrom(vs, k, bs) ==
  IF k = Len(vs) THEN bs
  ELSE AggregateFrom(vs, k + 1, AggregateStep(bs, k, vs[k + 1]))

\* lines 112-121
Aggregate(vs) == AggregateFrom(vs, 0, <<0, 0, 0, 0>>)

GifDensities == {Frac(0, 1), Frac(1, 2), Frac(1, 1), Frac(3, 2)}

InitGif ==
  /\ entry \in {"enimda", "decompose"}
  /\ anim \in Animations
  /\ lim \in 0..MaxLim
  /\ IF entry = "enimda"
     THEN /\ ppt = Frac(1, 1)
          /\ depth \in {Frac(1, 2), Frac(1, 1)}
     ELSE /\ ppt \in GifDensities
          /\ depth = Frac(0, 1)
  /\ thres = Frac(1, 2)
  /\ deep = TRUE
  /\ frameset = {} /\ index = 0 /\ screen = NoImage /\ ims = <<>>
  /\ variants = <<>> /\ report = <<>>
  /\ gpc = "start"
  /\ im = NoImage /\ size = 0 /\ mul = Frac(1, 1) /\ conv = NoImage
  /\ strips = NoImage /\ side = 0 /\ height = 0 /\ border = 0 /\ iters = 0
  /\ regions = {} /\ borders = <<>> /\ pc = "idle"
  /\ SampleIdle

\* lib.rs lines 84-93
EnimdaStart ==
  /\ gpc = "start" /\ entry = "enimda"
  /\ frameset' \in Slice(Len(anim), lim)
  /\ screen' = BlankScreen(anim[1].w)
  /\ index' = 0
  /\ variants' = <<>>
  /\ gpc' = "read"
  /\ UNCHANGED <<entry, anim, ims, report, sampVars, scanVars>>

\* lib.rs line 95: frames == 0 || frameset.contains(&index)
FrameWanted(f, set, i) == f = 0 \/ i \in set

\* lib.rs lines 94-110: one frame read; a wanted frame is blitted, read out
\* of the screen and scanned
EnimdaFrame ==
  /\ gpc = "read" /\ entry = "enimda"
  /\ index < Len(anim)
  /\ IF FrameWanted(lim, frameset, index)
     THEN LET scr == Blit(screen, anim[index + 1])
              sub == ScanFrame(scr, depth, thres, deep)
          IN /\ screen' = scr
             /\ ims' = Append(ims, [i |-> index, buf |-> scr])
             /\ IF sub.panic
                THEN gpc' = "panic" /\ UNCHANGED <<variants, index>>
                ELSE /\ variants' = Append(variants, sub.borders)
                     /\ index' = index + 1
                     /\ gpc' = gpc
     ELSE /\ index' = index + 1
          /\ UNCHANGED <<screen, ims, variants, gpc>>
  /\ UNCHANGED <<entry, anim, frameset, report, sampVars, scanVars>>

\* lib.rs lines 112-134: fold the variants into the report
EnimdaReport ==
  /\ gpc = "read" /\ entry = "enimda"
  /\ index = Len(anim)
  /\ report' = Aggregate(variants)
  /\ gpc' = "done"
  /\ UNCHANGED <<entry, anim, frameset, index, screen, ims, variants,
                 sampVars, scanVars>>

\* utils.rs lines 40-51
DecomposeStart ==
  /\ gpc = "start" /\ entry = "decompose"
  /\ \/ /\ ~ValidFraction(ppt) \/ PaginatePanics(Len(anim), ppt, lim)
        /\ gpc' = "panic"
        /\ UNCHANGED <<frameset, screen, index>>
     \/ /\ ValidFraction(ppt)
        /\ frameset' \in PaginateSets(Len(anim), ppt, lim)
        /\ screen' = BlankScreen(anim[1].w)
        /\ index' = 0
        /\ gpc' = "read"
  /\ UNCHANGED <<entry, anim, ims, variants, report, sampVars, scanVars>>

\* utils.rs line 53: ppt == 1.0 || lim == 0 || frames.contains(&i)
FrameKept(p, l, set, i) == p = Frac(1, 1) \/ l = 0 \/ i \in set

\* utils.rs lines 52-66: one frame read; a kept frame is blitted and pushed
DecomposeFrame ==
  /\ gpc = "read" /\ entry = "decompose"
  /\ index < Len(anim)
  /\ IF FrameKept(ppt, lim, frameset, index)
     THEN /\ screen' = Blit(screen, anim[index + 1])
          /\ ims' = Append(ims, [i |-> index, buf |-> Blit(screen, anim[index + 1])])
     ELSE UNCHANGED <<screen, ims>>
  /\ index' = index + 1
  /\ UNCHANGED <<entry, anim, frameset, variants, report, gpc, sampVars, scanVars>>

\* utils.rs line 68
DecomposeReturn ==
  /\ gpc = "read" /\ entry = "decompose"
  /\ index = Len(anim)
  /\ gpc' = "done"
  /\ UNCHANGED <<entry, anim, frameset, index, screen, ims, variants, report,
                 sampVars, scanVars>>

NextGif ==
  \/ EnimdaStart \/ EnimdaFrame \/ EnimdaReport
  \/ DecomposeStart \/ DecomposeFrame \/ DecomposeReturn

SpecGif == InitGif /\ [][NextGif]_vars

\* --------------------------------------------------- the whole program
Init == InitSample \/ InitScan \/ InitGif

Next == NextSample \/ NextScan \/ NextGif

Spec == Init /\ [][Next]_vars

\* ------------------------------------------------- properties: paginate
NotBypassed == Less(ppt, Frac(1, 1)) /\ lim > 0

Distinct(s) == \A i, j \in 1..Len(s) : i # j => s[i] # s[j]

\* C4: for density in [0,1) and limit > 0, whatever the draws, the indices
\* drawn are pairwise distinct, and the set returned has at most
\* min(limit, total) elements, all in [0, total), none collapsed from a
\* repeated index.
C4_SampleWithinDomain ==
  NotBypassed =>
    /\ ppc \in {"drawn", "done"} => Distinct(indexes)
    /\ ppc = "done" =>
         /\ Cardinality(result) <= Min(lim, total)
         /\ \A i \in result : 0 <= i /\ i < total
         /\ Cardinality(result) = Len(indexes)

C4_Witness ==
  /\ ppc = "done" /\ NotBypassed
  /\ total = MaxTotal /\ count = 2 /\ Cardinality(result) = 2

IndexesIn(lo, hi) == {i \in 1..Len(indexes) : lo <= indexes[i] /\ indexes[i] < hi}

\* C6 as stated: segment_count = round(1/density) runs of total / segment_count
\* indices each, so segment_count indices are drawn, plus one when
\* total % segment_count # 0 (taken where density > 0 and no run is empty).
C6_OnePerSegmentCountRuns ==
  (ppc = "drawn" /\ NotBypassed /\ ppt.num > 0 /\ total >= count) =>
    /\ Len(indexes) = count + (IF total % count # 0 THEN 1 ELSE 0)
    /\ \A k \in 0..(count - 1) :
         Cardinality(IndexesIn(k * (total \div count), (k + 1) * (total \div count))) = 1

\* C6 amended: the runs are total / segment_count runs of segment_count
\* indices each, plus the trailing run of total % segment_count indices when
\* that is not 0; exactly one index is drawn from each, so total / segment_count
\* indices are drawn, plus one when there is a remainder.
C6_OnePerRunOfSegmentCount ==
  (ppc = "drawn" /\ NotBypassed) =>
    /\ Len(indexes) = (total \div count) + (IF total % count # 0 THEN 1 ELSE 0)
    /\ \A k \in 0..((total \div count) - 1) :
         Cardinality(IndexesIn(k * count, (k + 1) * count)) = 1
    /\ total % count # 0 =>
         Cardinality(IndexesIn((total \div count) * count, total)) = 1

C6_Witness ==
  /\ ppc = "drawn" /\ NotBypassed
  /\ total = 5 /\ count = 2 /\ Len(indexes) = 3

\* ----------------------------------------------------- properties: scan
Unsampled == ppt = Frac(1, 1) \/ lim = 0

\* C2: a single-luma image, not resized and with no column sampling, scans
\* to border 0 on all four edges for every depth in [0,1], every threshold
\* and both values of deep: the scan never panics and reports only zeros.
C2_UniformScansToZero ==
  (pc # "convert" /\ IsUniform(im) /\ mul = Frac(1, 1) /\ Unsampled
     /\ ValidFraction(ppt) /\ ValidFraction(depth)) =>
    /\ pc # "panic"
    /\ \A k \in 1..Len(borders) : borders[k] = 0

\* C3: a depth or a sampling density outside [0,1] ends the call with an
\* error value: the call neither panics nor goes on to report borders.
C3_InvalidParameterIsAnError ==
  (~ValidFraction(ppt) \/ ~ValidFraction(depth)) =>
    /\ pc # "panic"
    /\ pc # "done"
    /\ borders = <<>>

\* C7 as stated: the reported offset is border * mul rounded to the nearest
\* integer.
C7_OffsetRounded ==
  (pc \in {"side", "done"} /\ Len(borders) > 0) =>
    borders[Len(borders)] = Round(border * mul.num, mul.den)

\* C7 amended: the reported offset is border * mul with the fraction dropped
\* (truncated toward zero); with mul = 1.0 it is the raw border row.
C7_OffsetTruncated ==
  (pc \in {"side", "done"} /\ Len(borders) > 0) =>
    /\ borders[Len(borders)] * mul.den <= border * mul.num
    /\ border * mul.num < (borders[Len(borders)] + 1) * mul.den
    /\ mul = Frac(1, 1) => borders[Len(borders)] = border

C7_Witness ==
  /\ pc = "done" /\ mul = Frac(3, 2) /\ border = 1 /\ borders[4] = 1

\* C8: for every depth in [0,1], every region the edge scan passes to the
\* entropy evaluator lies inside the strip: y + height <= strip height.
C8_RegionsInsideStrip ==
  ValidFraction(depth) =>
    \A r \in regions : r[1] + r[2] <= strips.h

\* C9 as stated: with deep = true the loop makes at most search_height
\* passes.
C9_AtMostSearchHeightPasses ==
  (pc = "push" /\ deep) => iters <= height

\* C9 amended: every pass that does not stop sets border to a row strictly
\* above the previous border and strictly below search_height; the loop
\* makes at most max(1, search_height) passes with deep = true and exactly
\* one with deep = false; the raw border is 0 or a row in
\* [1, search_height - 1].
C9_LoopBounded ==
  /\ [](pc \in {"loop", "push"} =>
          /\ iters <= (IF height > 1 THEN height ELSE 1)
          /\ (pc = "loop" => iters <= border)
          /\ (~deep /\ pc = "push" => iters = 1)
          /\ (border = 0 \/ (1 <= border /\ border <= height - 1)))
  /\ [][(pc = "loop" /\ border' # border) =>
          (border' > border /\ border' < height)]_vars

C9_Witness ==
  /\ pc = "push" /\ deep /\ iters = 2 /\ border >= 2 /\ height >= 3

\* ----------------------------------------------- properties: animations
RECURSIVE Composite(_, _)
\* the canvas after frames 0..i were blitted, each once, in order
Composite(a, i) ==
  IF i < 0 THEN BlankScreen(a[1].w) ELSE Blit(Composite(a, i - 1), a[i + 1])

\* C1: when at least one frame was scanned, each edge of the report is the
\* minimum of that edge over the per-frame vectors, so it is <= that edge
\* of every scanned frame.
C1_ReportIsEdgewiseMin ==
  (gpc = "done" /\ entry = "enimda" /\ Len(variants) >= 1) =>
    \A sd \in 1..4 :
      /\ \A k \in 1..Len(variants) : report[sd] <= variants[k][sd]
      /\ \E k \in 1..Len(variants) : report[sd] = variants[k][sd]

C1_Witness ==
  /\ gpc = "done" /\ entry = "enimda" /\ Len(variants) >= 2
  /\ variants[1][1] = 0 /\ variants[2][1] = 1 /\ report[1] = 0
  /\ \E k \in 2..Len(variants) : variants[k] # variants[1]

\* C10: the buffer read out for a selected frame i is the composite of all
\* frames 0..i, whichever frames were selected.
C10_BufferIsFullComposite ==
  \A k \in 1..Len(ims) : ims[k].buf = Composite(anim, ims[k].i)

\* C5: with density 1.0 or limit 0 sampling is bypassed: chop returns its
\* input buffer unchanged, and the frame loops take every frame read, in
\* order, none skipped.
C5_BypassUsesWholeDomain ==
  /\ (pc \in {"loop", "push"} /\ (ppt = Frac(1, 1) \/ lim = 0)) => strips = conv
  /\ (gpc \in {"read", "done"}
        /\ \/ entry = "enimda" /\ lim = 0
           \/ entry = "decompose" /\ (ppt = Frac(1, 1) \/ lim = 0)) =>
       /\ Len(ims) = index
       /\ \A k \in 1..Len(ims) : ims[k].i = k - 1

C5_Witness ==
  /\ pc = "push" /\ side = 3 /\ ppt = Frac(1, 2) /\ lim = 0
  /\ strips = conv /\ conv.w = MaxDim /\ ~IsUniform(conv)

C5_WitnessFrames ==
  /\ gpc = "done" /\ lim = 0 /\ Len(anim) = MaxFrames /\ Len(ims) = MaxFrames

====
